---- MODULE Spec2Model ----
(***************************************************************************)
(* Payment-Gateway front end: the three-step payment wizard and its        *)
(* submission handlers, in the variants the repository holds:              *)
(*   "demo"   frontend/src/App.jsx    (card form, health probe, demo mode) *)
(*   "stripe" unnamed/part_001        (wizard with PaymentForm, Stripe.js) *)
(*   "realB"  unnamed/part_003:138-334 (RealPaymentForm, two steps)        *)
(*   "realA"  unnamed/part_003:1-137  (RealPaymentForm, intent on mount)   *)
(*   "realC"  unnamed/part_002        (RealPaymentForm, intent on click)   *)
(* Strings that the code parses, formats or measures are sequences of      *)
(* one-character strings; strings it only tests for emptiness or copies    *)
(* are TLA+ strings.  Every asynchronous handler is cut at its awaits: one *)
(* action per synchronous stretch.                                         *)
(* Spec is the running front end.  SpecValidate applies validateCardDetails*)
(* (which no handler calls) to the card data step 3 can hold, and SpecCard *)
(* feeds the card number input keystroke by keystroke.  SpecIntent is the  *)
(* "realA" form on its own; SpecIntentFair adds that every call settles.   *)
(* SpecButton is the "realC" form.                                         *)
(***************************************************************************)
EXTENDS Integers, Sequences, FiniteSets, TLC

VARIABLES
    app,          \* which variant of the front end is running
    step,         \* useState(1)
    formData,     \* {full_name, email, phone, amount}
    paymentData,  \* {payment_method, card_number, expiry_month, expiry_year, cvv, cardholder_name}
    loading,      \* useState(false)
    message,      \* useState(''): a sequence of pieces, <<>> is ''
    messageType,  \* useState('')
    userInfo,     \* RealPaymentForm: {full_name, email, phone}
    stripeLoaded, \* useStripe()/useElements() return non-null
    today,        \* new Date(): <<year, month>>
    amount,       \* RealPaymentForm: the amount prop, in thousandths
    cardValidation, \* useState({}): the validation result validateCardDetails stores
    clientSecret, \* RealPaymentForm (part_003:17): useState(''), <<>> is ''
    intents,      \* the createPaymentIntent invocations suspended at their await, oldest first
    charges,      \* the processor: how often confirmCardPayment has returned
                  \* 'succeeded' for the form as it is filled in
    subs,         \* the handler invocations suspended at an await, oldest first
    ev            \* what the last step emitted: a request, a finished submission, or nothing

vars == <<app, step, formData, paymentData, loading, message, messageType,
          userInfo, stripeLoaded, today, amount, cardValidation, clientSecret,
          intents, charges, subs, ev>>

----------------------------------------------------------------------------
(* Bounds of the model *)

\* how many handleSubmit invocations may be suspended at once
MaxInflight == 2

\* the count of charges stops here
MaxCharges == 2

----------------------------------------------------------------------------
(* Characters and strings *)

Digits == {"0", "1", "2", "3", "4", "5", "6", "7", "8", "9"}

DigitVal(c) ==
    CASE c = "0" -> 0 [] c = "1" -> 1 [] c = "2" -> 2 [] c = "3" -> 3
      [] c = "4" -> 4 [] c = "5" -> 5 [] c = "6" -> 6 [] c = "7" -> 7
      [] c = "8" -> 8 [] c = "9" -> 9

\* s.replace(/\D/g, '')
RECURSIVE StripNonDigits(_)
StripNonDigits(s) ==
    IF s = <<>> THEN <<>>
    ELSE IF Head(s) \in Digits THEN <<Head(s)>> \o StripNonDigits(Tail(s))
         ELSE StripNonDigits(Tail(s))

\* s.replace(/\s/g, '')
RECURSIVE StripSpaces(_)
StripSpaces(s) ==
    IF s = <<>> THEN <<>>
    ELSE IF Head(s) = " " THEN StripSpaces(Tail(s))
         ELSE <<Head(s)>> \o StripSpaces(Tail(s))

\* digits.replace(/(\d{4})(?=\d)/g, '$1 ') on a string of digits
RECURSIVE GroupByFour(_)
GroupByFour(d) ==
    IF Len(d) <= 4 THEN d
    ELSE SubSeq(d, 1, 4) \o <<" ">> \o GroupByFour(SubSeq(d, 5, Len(d)))

\* s.slice(0, n)
Slice0(s, n) == SubSeq(s, 1, IF Len(s) < n THEN Len(s) ELSE n)

FormatCardNumberCutAtTwenty(value) == Slice0(GroupByFour(StripNonDigits(value)), 20)

FormatCardNumberCutAtFifteen(value) == Slice0(GroupByFour(StripNonDigits(value)), 15)

\* the card_number branch of handlePaymentInputChange
FormatCardNumber(value) == Slice0(GroupByFour(StripNonDigits(value)), 19)

\* parseInt(s) of a non-empty string of digits
RECURSIVE ParseInt(_)
ParseInt(s) ==
    IF s = <<>> THEN 0
    ELSE 10 * ParseInt(SubSeq(s, 1, Len(s) - 1)) + DigitVal(s[Len(s)])

\* parseFloat(s) of the decimal strings a number input yields, in thousandths:
\* an optional "-", digits, and an optional "." with up to three digits.
IndexOfDot(s) ==
    IF \E i \in 1..Len(s) : s[i] = "."
    THEN CHOOSE i \in 1..Len(s) : s[i] = "." /\ \A j \in 1..(i - 1) : s[j] # "."
    ELSE Len(s) + 1

Pad3(f) == IF Len(f) = 0 THEN <<"0", "0", "0">>
           ELSE IF Len(f) = 1 THEN f \o <<"0", "0">>
           ELSE IF Len(f) = 2 THEN f \o <<"0">>
           ELSE SubSeq(f, 1, 3)

ParseFloatMilli(s) ==
    LET neg  == s # <<>> /\ Head(s) = "-"
        body == IF neg THEN Tail(s) ELSE s
        dot  == IndexOfDot(body)
        int  == SubSeq(body, 1, dot - 1)
        frac == SubSeq(body, dot + 1, Len(body))
        mag  == 1000 * ParseInt(int) + ParseInt(Pad3(frac))
    IN  IF neg THEN 0 - mag ELSE mag

----------------------------------------------------------------------------
(* Card validation: the local checks of validateCardDetails *)

Reverse(s) == [i \in 1..Len(s) |-> s[Len(s) + 1 - i]]

\* arr.reduce((acc, val, i) => (i % 2 !== 0 ? acc + val : acc + ((val * 2) % 9) || 9), 0)
\* i is the 0-based index; "+" binds tighter than "||".
RECURSIVE LuhnReduce(_, _, _)
LuhnReduce(arr, i, acc) ==
    IF i >= Len(arr) THEN acc
    ELSE LET val == arr[i + 1]
             t   == acc + ((val * 2) % 9)
         IN  LuhnReduce(arr, i + 1,
                        IF i % 2 # 0 THEN acc + val
                        ELSE IF t = 0 THEN 9 ELSE t)

luhnCheck(num) ==
    LET arr       == [i \in 1..Len(num) |-> DigitVal(Reverse(num)[i])]
        lastDigit == arr[1]
        rest      == SubSeq(arr, 2, Len(arr))
        sum       == LuhnReduce(rest, 0, 0) + lastDigit
    IN  sum % 10 = 0

CardExpiredThisMonthToo(expYear, expMonth, now) ==
    expYear < now[1] \/ (expYear = now[1] /\ expMonth <= now[2])

\* expYear < currentYear || (expYear === currentYear && expMonth < currentMonth)
CardExpired(expYear, expMonth, now) ==
    expYear < now[1] \/ (expYear = now[1] /\ expMonth < now[2])

expectedCvvLengthOfVisa(pd) == 3

\* paymentData.payment_method === 'amex' ? 4 : 3
expectedCvvLength(pd) == IF pd.payment_method = "amex" THEN 4 ELSE 3

LocalCardCheckCvvBeforeExpiry(pd, now) ==
    LET cardNumber == StripSpaces(pd.card_number)
        expYear    == ParseInt(pd.expiry_year)
        expMonth   == ParseInt(pd.expiry_month)
    IN  IF pd.card_number = <<>> \/ pd.expiry_month = <<>>
           \/ pd.expiry_year = <<>> \/ pd.cvv = <<>>
        THEN "Please fill in all card details"
        ELSE IF Len(cardNumber) < 13 \/ Len(cardNumber) > 19
        THEN "Invalid card number length"
        ELSE IF ~luhnCheck(cardNumber)
        THEN "Invalid card number"
        ELSE IF Len(pd.cvv) # expectedCvvLength(pd)
        THEN "CVV must be n digits for BRAND"
        ELSE IF CardExpired(expYear, expMonth, now)
        THEN "Card has expired"
        ELSE "ok"

\* validateCardDetails up to its remote call: the reason of the first failing
\* check, or "ok" ("CVV must be n digits for BRAND" names the template of
\* line 130, whose text is LocalCardMessage)
LocalCardCheck(pd, now) ==
    LET cardNumber == StripSpaces(pd.card_number)
        expYear    == ParseInt(pd.expiry_year)
        expMonth   == ParseInt(pd.expiry_month)
    IN  IF pd.card_number = <<>> \/ pd.expiry_month = <<>>
           \/ pd.expiry_year = <<>> \/ pd.cvv = <<>>
        THEN "Please fill in all card details"
        ELSE IF Len(cardNumber) < 13 \/ Len(cardNumber) > 19
        THEN "Invalid card number length"
        ELSE IF ~luhnCheck(cardNumber)
        THEN "Invalid card number"
        ELSE IF CardExpired(expYear, expMonth, now)
        THEN "Card has expired"
        ELSE IF Len(pd.cvv) # expectedCvvLength(pd)
        THEN "CVV must be n digits for BRAND"
        ELSE "ok"

\* String(n) of a CVV length, as the template literal prints it
LengthText(n) == IF n = 4 THEN "4" ELSE "3"

\* s.toUpperCase() of a payment method
ToUpperCase(s) ==
    CASE s = "visa" -> "VISA" [] s = "mastercard" -> "MASTERCARD"
      [] s = "amex" -> "AMEX" [] s = "discover" -> "DISCOVER"

\* the message validateCardDetails sets for a failed local check
LocalCardMessage(pd, why) ==
    IF why = "CVV must be n digits for BRAND"
    THEN <<"CVV must be ", LengthText(expectedCvvLength(pd)), " digits for ",
           ToUpperCase(pd.payment_method)>>
    ELSE <<why>>

\* s.slice(-n)
SliceLast(s, n) == SubSeq(s, IF Len(s) > n THEN Len(s) - n + 1 ELSE 1, Len(s))

----------------------------------------------------------------------------
(* Initial values of the components' state *)

EmptyFormData == [full_name |-> "", email |-> "", phone |-> "", amount |-> <<>>]

DefaultPaymentData ==
    [payment_method |-> "visa", card_number |-> <<>>, expiry_month |-> <<>>,
     expiry_year |-> <<>>, cvv |-> <<>>, cardholder_name |-> ""]

EmptyUserInfo == [full_name |-> "", email |-> "", phone |-> ""]

NoMessage == <<>>

NoEvent == [type |-> "none"]

\* useState({}) of cardValidation: no field is set, valid reads as falsy
NoValidation == [valid |-> FALSE, card_type |-> "", masked_number |-> <<>>]

\* a request without a body
NoBody == [x \in {} |-> ""]

----------------------------------------------------------------------------
(* Inputs of the model: what the user types or picks, what the network and *)
(* the processor answer                                                    *)

Variants == {"demo", "stripe", "realB"}

NameInputs  == {"", "Ann"}
EmailInputs == {"", "a@b.c"}
PhoneInputs == {"", "555"}
\* the amount input: empty, zero, less than half a cent, and 25
AmountInputs == {<<>>, <<"0">>, <<"0", ".", "0", "0", "4">>, <<"2", "5">>}

\* the radio buttons of step 2 the model clicks: the default and the brand
\* the code singles out (mastercard and discover are handled as visa is)
PaymentMethods == {"visa", "amex"}

Card4242 == <<"4","2","4","2","4","2","4","2","4","2","4","2","4","2","4","2">>
Card4241 == <<"4","2","4","2","4","2","4","2","4","2","4","2","4","2","4","1">>

\* raw values of the card number input
CardNumberInputs == {<<>>, Card4242, Card4241}
MonthInputs  == {<<>>, <<"1", "2">>}
YearInputs   == {<<>>, <<"2", "0", "2", "5">>}
CvvInputs    == {<<>>, <<"1", "2", "3">>}

\* response.data.transaction_id of POST /transactions/create
TransactionIds == {"TXN-1"}

\* error.response?.data?.detail of a failed backend call: a detail, or none
ErrorDetails == {"", "Card declined"}

\* messages of the processor's error objects
ProcessorMessages == {"Your card was declined.", "Your card has expired."}

----------------------------------------------------------------------------
(* Suspended submissions and emitted events *)

CallNames == {"health", "create", "intent", "createPaymentMethod",
              "confirmCardPayment", "notify", "validate", "process"}

NoResults == [c \in CallNames |-> "none"]

\* a handleSubmit invocation at its first await: fd, pd, ui and stripe are
\* the formData, paymentData, userInfo and useStripe() of the render whose
\* closure the handler runs in; calls are the remote calls it has made, res
\* their outcomes, perr the message of the processor's error object; solo
\* records that no other invocation was suspended during its life.
NewSub(pc, fd, pd, ui, call) ==
    [pc |-> pc, fd |-> fd, pd |-> pd, ui |-> ui, stripe |-> stripeLoaded,
     calls |-> <<call>>, res |-> NoResults, perr |-> "", solo |-> subs = <<>>]

Start(sub) == Append([i \in 1..Len(subs) |-> [subs[i] EXCEPT !.solo = FALSE]], sub)

RemoveAt(s, i) == SubSeq(s, 1, i - 1) \o SubSeq(s, i + 1, Len(s))

Advance(s, c, r, pc, call) ==
    [s EXCEPT !.pc = pc, !.res[c] = r, !.calls = Append(@, call)]

Answered(s, c, r) == [s EXCEPT !.pc = "done", !.res[c] = r]

Refused(s, c, r, m) == [s EXCEPT !.pc = "done", !.res[c] = r, !.perr = m]

Send(to, endpoint, body) ==
    [type |-> "send", to |-> to, endpoint |-> endpoint, body |-> body]

\* the end of a handleSubmit invocation: kind is the messageType it leaves
\* (or the callback it made), text the message
Finish(s, kind, text) ==
    [type |-> "finish", sub |-> s, kind |-> kind, text |-> text]

NeverSuspended(fd, pd, ui) ==
    [pc |-> "done", fd |-> fd, pd |-> pd, ui |-> ui, stripe |-> stripeLoaded,
     calls |-> <<>>, res |-> NoResults, perr |-> "", solo |-> subs = <<>>]

----------------------------------------------------------------------------
(* The wizard shared by App.jsx and part_001: steps 1 and 2 *)

Wizard == app \in {"demo", "stripe"}

handleInputChangeAtAnyStep ==
    /\ Wizard
    /\ \/ \E v \in NameInputs  : formData' = [formData EXCEPT !.full_name = v]
       \/ \E v \in EmailInputs : formData' = [formData EXCEPT !.email = v]
       \/ \E v \in PhoneInputs : formData' = [formData EXCEPT !.phone = v]
       \/ \E v \in AmountInputs : formData' = [formData EXCEPT !.amount = v]
    /\ ev' = NoEvent
    /\ UNCHANGED <<app, cardValidation, charges, clientSecret, intents,
                   step, paymentData, loading, message, messageType,
                   userInfo, stripeLoaded, today, amount, subs>>

\* handleInputChange, bound to the inputs of step 1
handleInputChange ==
    /\ Wizard /\ step = 1
    /\ \/ \E v \in NameInputs  : formData' = [formData EXCEPT !.full_name = v]
       \/ \E v \in EmailInputs : formData' = [formData EXCEPT !.email = v]
       \/ \E v \in PhoneInputs : formData' = [formData EXCEPT !.phone = v]
       \/ \E v \in AmountInputs : formData' = [formData EXCEPT !.amount = v]
    /\ ev' = NoEvent
    /\ UNCHANGED <<app, cardValidation, charges, clientSecret, intents,
                   step, paymentData, loading, message, messageType,
                   userInfo, stripeLoaded, today, amount, subs>>

\* handlePaymentInputChange, bound to the radio buttons of step 2
selectPaymentMethod ==
    /\ Wizard /\ step = 2
    /\ \E v \in PaymentMethods :
          paymentData' = [paymentData EXCEPT !.payment_method = v]
    /\ ev' = NoEvent
    /\ UNCHANGED <<app, cardValidation, charges, clientSecret, intents,
                   step, formData, loading, message, messageType,
                   userInfo, stripeLoaded, today, amount, subs>>

\* handlePaymentInputChange, bound to the card inputs of App.jsx's step 3
\* (cardholder_name takes the same generic branch as cvv and is read by
\* nothing but the payload: the model leaves it as it is)
handlePaymentInputChange ==
    /\ app = "demo" /\ step = 3
    /\ \/ \E v \in CardNumberInputs :
             paymentData' = [paymentData EXCEPT !.card_number = FormatCardNumber(v)]
       \/ \E v \in MonthInputs : paymentData' = [paymentData EXCEPT !.expiry_month = v]
       \/ \E v \in YearInputs  : paymentData' = [paymentData EXCEPT !.expiry_year = v]
       \/ \E v \in CvvInputs   : paymentData' = [paymentData EXCEPT !.cvv = v]
    /\ ev' = NoEvent
    /\ UNCHANGED <<app, cardValidation, charges, clientSecret, intents,
                   step, formData, loading, message, messageType,
                   userInfo, stripeLoaded, today, amount, subs>>

validateBasicInfoAnyAmount(fd) ==
    IF fd.full_name = "" \/ fd.email = "" \/ fd.phone = "" \/ fd.amount = <<>>
    THEN "Please fill in all fields"
    ELSE "ok"

\* validateBasicInfo: the error it sets, or "ok"
validateBasicInfo(fd) ==
    IF fd.full_name = "" \/ fd.email = "" \/ fd.phone = "" \/ fd.amount = <<>>
    THEN "Please fill in all fields"
    ELSE IF ParseFloatMilli(fd.amount) <= 0
    THEN "Amount must be greater than 0"
    ELSE "ok"

handleNextStepChecksCard ==
    /\ Wizard /\ step \in {1, 2}
    /\ IF step = 1
       THEN LET v == validateBasicInfo(formData)
            IN  IF v = "ok"
                THEN /\ step' = 2
                     /\ message' = NoMessage
                     /\ UNCHANGED messageType
                ELSE /\ message' = <<v>>
                     /\ messageType' = "error"
                     /\ UNCHANGED step
       ELSE IF paymentData.card_number = <<>>
            THEN /\ message' = <<"Please fill in all card details">>
                 /\ messageType' = "error"
                 /\ UNCHANGED step
            ELSE /\ step' = 3
                 /\ message' = NoMessage
                 /\ UNCHANGED messageType
    /\ ev' = NoEvent
    /\ UNCHANGED <<app, cardValidation, charges, clientSecret, intents,
                   formData, paymentData, loading, userInfo,
                   stripeLoaded, today, amount, subs>>

\* handleNextStep, bound to the Continue buttons of steps 1 and 2
handleNextStep ==
    /\ Wizard /\ step \in {1, 2}
    /\ IF step = 1
       THEN LET v == validateBasicInfo(formData)
            IN  IF v = "ok"
                THEN /\ step' = 2
                     /\ message' = NoMessage
                     /\ UNCHANGED messageType
                ELSE /\ message' = <<v>>
                     /\ messageType' = "error"
                     /\ UNCHANGED step
       ELSE /\ step' = 3
            /\ message' = NoMessage
            /\ UNCHANGED messageType
    /\ ev' = NoEvent
    /\ UNCHANGED <<app, cardValidation, charges, clientSecret, intents,
                   formData, paymentData, loading, userInfo,
                   stripeLoaded, today, amount, subs>>

BackShownAtEveryStep == TRUE

\* the Back buttons: step 2 of both wizards, step 3 of App.jsx only
BackShown == step = 2 \/ (app = "demo" /\ step = 3)

Back ==
    /\ Wizard /\ BackShown
    /\ step' = step - 1
    /\ ev' = NoEvent
    /\ UNCHANGED <<app, cardValidation, charges, clientSecret, intents,
                   formData, paymentData, loading, message, messageType,
                   userInfo, stripeLoaded, today, amount, subs>>

ResetFormKeepsStep ==
    /\ formData' = EmptyFormData
    /\ paymentData' = DefaultPaymentData
    /\ UNCHANGED step

\* "// Reset form" of both handleSubmit's
ResetForm ==
    /\ formData' = EmptyFormData
    /\ paymentData' = DefaultPaymentData
    /\ step' = 1

----------------------------------------------------------------------------
(* App.jsx: handleSubmit *)

PayNowNeverDisabled == FALSE

\* disabled={loading} of the Pay Now button
PayNowDisabled == loading

\* paymentPayload
paymentPayload(fd, pd) ==
    [full_name |-> fd.full_name, email |-> fd.email, phone |-> fd.phone,
     amount |-> ParseFloatMilli(fd.amount), currency |-> "USD",
     payment_method |-> pd.payment_method,
     card_details |-> [card_number |-> pd.card_number,
                       expiry_month |-> pd.expiry_month,
                       expiry_year |-> pd.expiry_year,
                       cvv |-> pd.cvv,
                       cardholder_name |-> pd.cardholder_name]]

\* "Quick client-side validation"
CardFieldsMissing(pd) ==
    pd.card_number = <<>> \/ pd.expiry_month = <<>>
        \/ pd.expiry_year = <<>> \/ pd.cvv = <<>>

\* from the submit event to the first await (or the early return)
handleSubmit ==
    /\ app = "demo" /\ step = 3
    /\ ~PayNowDisabled
    /\ Len(subs) < MaxInflight
    /\ IF CardFieldsMissing(paymentData)
       THEN /\ message' = <<"Please fill in all card details">>
            /\ messageType' = "error"
            /\ loading' = FALSE
            /\ ev' = Finish(NeverSuspended(formData, paymentData, userInfo),
                            "error", <<"Please fill in all card details">>)
            /\ UNCHANGED subs
       ELSE /\ message' = NoMessage
            /\ loading' = TRUE
            /\ subs' = Start(NewSub("health", formData, paymentData,
                                     userInfo, "health"))
            /\ ev' = Send("backend", "GET /health", NoBody)
            /\ UNCHANGED messageType
    /\ UNCHANGED <<app, cardValidation, charges, clientSecret, intents,
                   step, formData, paymentData, userInfo, stripeLoaded, today, amount>>

DemoMessage(why) ==
    <<"Demo Payment Successful! (" \o why \o ") Transaction ID: ", "DEMO-", "Date.now()">>

backendAlwaysAvailable(r) == TRUE

\* whether the probe's outcome lets the handler go on to the backend
backendAvailable(r) == r = "ok"

\* await axios.get(`${API_BASE_URL}/health`) settles
handleSubmit_health ==
    /\ app = "demo"
    /\ \E i \in 1..Len(subs), r \in {"ok", "fail"} :
        /\ subs[i].pc = "health"
        /\ IF backendAvailable(r)
           THEN /\ subs' = [subs EXCEPT ![i] = Advance(@, "health", r, "create", "create")]
                /\ ev' = Send("backend", "POST /transactions/create",
                              paymentPayload(subs[i].fd, subs[i].pd))
                /\ UNCHANGED <<step, formData, paymentData, loading, message, messageType>>
           ELSE /\ messageType' = "success"
                /\ message' = DemoMessage("Backend not available")
                /\ ResetForm
                /\ loading' = FALSE
                /\ subs' = RemoveAt(subs, i)
                /\ ev' = Finish(Answered(subs[i], "health", r), "success",
                                DemoMessage("Backend not available"))
    /\ UNCHANGED <<app, cardValidation, charges, clientSecret, intents,
                   userInfo, stripeLoaded, today, amount>>

createOutcomeRethrows(r, tid) ==
    IF r = "ok"
    THEN [kind |-> "success", text |-> <<"Payment successful! Transaction ID: ", tid>>]
    ELSE [kind |-> "error", text |-> <<"Payment failed. Please try again.">>]

\* what the handler shows when POST /transactions/create settles: the inner
\* try and its catch
createOutcome(r, tid) ==
    IF r = "ok"
    THEN [kind |-> "success", text |-> <<"Payment successful! Transaction ID: ", tid>>]
    ELSE [kind |-> "success", text |-> DemoMessage("Backend error")]

\* await axios.post(`${API_BASE_URL}/transactions/create`, ...) settles
handleSubmit_create ==
    /\ app = "demo"
    /\ \E i \in 1..Len(subs), r \in {"ok", "fail"}, tid \in TransactionIds :
        /\ subs[i].pc = "create"
        /\ messageType' = createOutcome(r, tid).kind
        /\ message' = createOutcome(r, tid).text
        /\ ResetForm
        /\ loading' = FALSE
        /\ subs' = RemoveAt(subs, i)
        /\ ev' = Finish(Answered(subs[i], "create", r), createOutcome(r, tid).kind,
                        createOutcome(r, tid).text)
    /\ UNCHANGED <<app, cardValidation, charges, clientSecret, intents,
                   userInfo, stripeLoaded, today, amount>>

----------------------------------------------------------------------------
(* Stripe.js *)

\* the status of the confirmed paymentIntent
IntentStatuses == {"succeeded", "processing"}

\* loadStripe(...) resolves: useStripe() and useElements() turn non-null
StripeLoads ==
    /\ app \in {"stripe", "realA", "realB", "realC"}
    /\ ~stripeLoaded
    /\ stripeLoaded' = TRUE
    /\ ev' = NoEvent
    /\ UNCHANGED <<app, cardValidation, charges, clientSecret, intents,
                   step, formData, paymentData, loading, message,
                   messageType, userInfo, today, amount, subs>>

\* Math.round(x * 100), x in thousandths
RoundCents(milli) == (milli + 5) \div 10

PaymentSucceededAnyStatus(status) == TRUE

\* paymentIntent.status !== 'succeeded' is the failure branch
PaymentSucceeded(status) == status = "succeeded"

\* the charges of the form once confirmCardPayment has settled with r: the
\* processor has charged the card when the status is 'succeeded'
Charged(r) ==
    IF r = "succeeded" /\ charges < MaxCharges THEN charges + 1 ELSE charges

\* error.response?.data?.detail || fallback
DetailOr(detail, fallback) == IF detail = "" THEN fallback ELSE detail

BillingDetails(who) ==
    [name |-> who.full_name, email |-> who.email, phone |-> who.phone]

IntentBody(cents, who) ==
    [amount |-> cents, currency |-> "usd", full_name |-> who.full_name,
     email |-> who.email, phone |-> who.phone]

\* the opaque identifiers the processor and the backend hand out
ConfirmBody ==
    [payment_intent_id |-> "pi_1", payment_method_id |-> "pm_1"]

----------------------------------------------------------------------------
(* part_001: PaymentForm.handleSubmit, mounted at step 3 of the wizard.    *)
(* PaymentForm receives setLoading but not loading: nothing in it can tell *)
(* whether a submission is in flight.                                      *)

\* disabled={setLoading}: the value is a function, and React leaves out a
\* boolean attribute whose value is a function (with a warning in
\* development), so the button is rendered enabled
PayNowStripeDisabled == FALSE

PaymentFormCatchDemo(detail) ==
    [kind |-> "success",
     text |-> <<"Demo Payment Successful! (Backend error) Transaction ID: ",
                "DEMO-", "Date.now()">>]

\* the catch block: what it shows
PaymentFormCatch(detail) ==
    [kind |-> "error", text |-> <<DetailOr(detail, "Payment failed. Please try again.")>>]

PaymentFormFailsKeepsBusy(i, s, out) ==
    /\ messageType' = out.kind
    /\ message' = out.text
    /\ subs' = RemoveAt(subs, i)
    /\ ev' = Finish(s, out.kind, out.text)
    /\ UNCHANGED <<step, formData, paymentData, loading>>

\* a return out of the try, or the catch, followed by the finally
PaymentFormFails(i, s, out) ==
    /\ messageType' = out.kind
    /\ message' = out.text
    /\ loading' = FALSE
    /\ subs' = RemoveAt(subs, i)
    /\ ev' = Finish(s, out.kind, out.text)
    /\ UNCHANGED <<step, formData, paymentData>>

PaymentForm_handleSubmit ==
    /\ app = "stripe" /\ step = 3
    /\ ~PayNowStripeDisabled
    /\ Len(subs) < MaxInflight
    /\ loading' = TRUE
    /\ message' = NoMessage
    /\ subs' = Start(NewSub("intent", formData, paymentData, userInfo, "intent"))
    /\ ev' = Send("backend", "POST /stripe/create-payment-intent",
                  IntentBody(RoundCents(ParseFloatMilli(formData.amount)), formData))
    /\ UNCHANGED <<app, cardValidation, charges, clientSecret, intents,
                   step, formData, paymentData, messageType, userInfo,
                   stripeLoaded, today, amount>>

\* await axios.post(.../stripe/create-payment-intent) settles
PaymentForm_intent ==
    /\ app = "stripe"
    /\ \E i \in 1..Len(subs), r \in {"ok", "fail"}, d \in ErrorDetails :
        /\ subs[i].pc = "intent"
        /\ IF r = "ok" /\ subs[i].stripe
           THEN /\ subs' = [subs EXCEPT ![i] = Advance(@, "intent", r,
                                "createPaymentMethod", "createPaymentMethod")]
                /\ ev' = Send("processor", "createPaymentMethod",
                              [type |-> "card", card |-> "CardElement",
                               billing_details |-> BillingDetails(subs[i].fd)])
                /\ UNCHANGED <<step, formData, paymentData, loading, message, messageType>>
           ELSE \* the request failed, or elements is null and getElement throws
                PaymentFormFails(i, Answered(subs[i], "intent", r),
                                 PaymentFormCatch(IF r = "ok" THEN "" ELSE d))
    /\ UNCHANGED <<app, cardValidation, charges, clientSecret, intents,
                   userInfo, stripeLoaded, today, amount>>

\* await stripe.createPaymentMethod(...) settles
PaymentForm_paymentMethod ==
    /\ app = "stripe"
    /\ \E i \in 1..Len(subs), r \in {"ok", "error"}, m \in ProcessorMessages :
        /\ subs[i].pc = "createPaymentMethod"
        /\ IF r = "ok"
           THEN /\ subs' = [subs EXCEPT ![i] = Advance(@, "createPaymentMethod", r,
                                "confirmCardPayment", "confirmCardPayment")]
                /\ ev' = Send("processor", "confirmCardPayment",
                              [client_secret |-> "cs_1", payment_method |-> "pm_1"])
                /\ UNCHANGED <<step, formData, paymentData, loading, message, messageType>>
           ELSE PaymentFormFails(i, Refused(subs[i], "createPaymentMethod", r, m),
                                 [kind |-> "error", text |-> <<m>>])
    /\ UNCHANGED <<app, cardValidation, charges, clientSecret, intents,
                   userInfo, stripeLoaded, today, amount>>

\* await stripe.confirmCardPayment(...) settles: r is "error" or the status
PaymentForm_confirm ==
    /\ app = "stripe"
    /\ \E i \in 1..Len(subs), r \in {"error"} \cup IntentStatuses,
          m \in ProcessorMessages :
        /\ subs[i].pc = "confirmCardPayment"
        /\ charges' = Charged(r)
        /\ IF r = "error"
           THEN PaymentFormFails(i, Refused(subs[i], "confirmCardPayment", r, m),
                                 [kind |-> "error", text |-> <<m>>])
           ELSE IF ~PaymentSucceeded(r)
           THEN PaymentFormFails(i, Answered(subs[i], "confirmCardPayment", r),
                                 [kind |-> "error",
                                  text |-> <<"Payment was not successful.">>])
           ELSE /\ subs' = [subs EXCEPT ![i] = Advance(@, "confirmCardPayment", r,
                                "notify", "notify")]
                /\ ev' = Send("backend", "POST /stripe/confirm-payment", ConfirmBody)
                /\ UNCHANGED <<step, formData, paymentData, loading, message, messageType>>
    /\ UNCHANGED <<app, cardValidation, clientSecret, intents,
                   userInfo, stripeLoaded, today, amount>>

\* await axios.post(.../stripe/confirm-payment) settles
PaymentForm_notify ==
    /\ app = "stripe"
    /\ \E i \in 1..Len(subs), r \in {"ok", "fail"}, d \in ErrorDetails :
        /\ subs[i].pc = "notify"
        /\ charges' = IF r = "ok" THEN 0 ELSE charges
        /\ IF r = "ok"
           THEN /\ messageType' = "success"
                /\ message' = <<"Payment successful!">>
                /\ ResetForm
                /\ loading' = FALSE
                /\ subs' = RemoveAt(subs, i)
                /\ ev' = Finish(Answered(subs[i], "notify", r), "success",
                                <<"Payment successful!">>)
           ELSE PaymentFormFails(i, Answered(subs[i], "notify", r), PaymentFormCatch(d))
    /\ UNCHANGED <<app, cardValidation, clientSecret, intents,
                   userInfo, stripeLoaded, today, amount>>

----------------------------------------------------------------------------
(* part_003, lines 138-334: RealPaymentForm in two steps (1 user info,     *)
(* 2 card).  It reports to its parent through onSuccess and onError: the   *)
(* kind of a finished submission is the callback made, "none" if neither.  *)

AmountProps == {25000}

handleUserInfoChange ==
    /\ app = "realB" /\ step = 1
    /\ \/ \E v \in NameInputs  : userInfo' = [userInfo EXCEPT !.full_name = v]
       \/ \E v \in EmailInputs : userInfo' = [userInfo EXCEPT !.email = v]
       \/ \E v \in PhoneInputs : userInfo' = [userInfo EXCEPT !.phone = v]
    /\ ev' = NoEvent
    /\ UNCHANGED <<app, cardValidation, charges, clientSecret, intents,
                   step, formData, paymentData, loading, message,
                   messageType, stripeLoaded, today, amount, subs>>

\* disabled={loading} of the Continue and the Pay buttons
RealButtonDisabled == loading

UserInfoMissing(ui) == ui.full_name = "" \/ ui.email = "" \/ ui.phone = ""

\* the form's onSubmit at step 1; it has no await
handleContinue ==
    /\ app = "realB" /\ step = 1
    /\ ~RealButtonDisabled
    /\ IF UserInfoMissing(userInfo)
       THEN /\ ev' = [type |-> "callback", kind |-> "error",
                      text |-> <<"Please fill in all required fields">>]
            /\ UNCHANGED step
       ELSE /\ step' = 2
            /\ ev' = NoEvent
    /\ loading' = FALSE
    /\ UNCHANGED <<app, cardValidation, charges, clientSecret, intents,
                   formData, paymentData, message, messageType, userInfo,
                   stripeLoaded, today, amount, subs>>

\* the catch block: what it reports
RealFormCatch(detail) ==
    [kind |-> "error", text |-> <<DetailOr(detail, "Payment failed.")>>]

\* onError(...) or onSuccess(...), then setLoading(false)
RealFormEnds(i, s, out) ==
    /\ loading' = FALSE
    /\ subs' = RemoveAt(subs, i)
    /\ ev' = Finish(s, out.kind, out.text)

\* the form's onSubmit at step 2
RealPaymentForm_handleSubmit ==
    /\ app = "realB" /\ step = 2
    /\ ~RealButtonDisabled
    /\ Len(subs) < MaxInflight
    /\ IF ~stripeLoaded
       THEN /\ loading' = FALSE
            /\ ev' = Finish(NeverSuspended(formData, paymentData, userInfo),
                            "none", <<>>)
            /\ UNCHANGED subs
       ELSE /\ loading' = TRUE
            /\ subs' = Start(NewSub("intent", formData, paymentData,
                                     userInfo, "intent"))
            /\ ev' = Send("backend", "POST /stripe/create-payment-intent",
                          IntentBody(RoundCents(amount), userInfo))
    /\ UNCHANGED <<app, cardValidation, charges, clientSecret, intents,
                   step, formData, paymentData, message, messageType,
                   userInfo, stripeLoaded, today, amount>>

RealPaymentForm_intent ==
    /\ app = "realB"
    /\ \E i \in 1..Len(subs), r \in {"ok", "fail"}, d \in ErrorDetails :
        /\ subs[i].pc = "intent"
        /\ IF r = "ok"
           THEN /\ subs' = [subs EXCEPT ![i] = Advance(@, "intent", r,
                                "createPaymentMethod", "createPaymentMethod")]
                /\ ev' = Send("processor", "createPaymentMethod",
                              [type |-> "card", card |-> "CardElement",
                               billing_details |-> BillingDetails(subs[i].ui)])
                /\ UNCHANGED loading
           ELSE RealFormEnds(i, Answered(subs[i], "intent", r), RealFormCatch(d))
    /\ UNCHANGED <<app, cardValidation, charges, clientSecret, intents,
                   step, formData, paymentData, message, messageType,
                   userInfo, stripeLoaded, today, amount>>

RealPaymentForm_paymentMethod ==
    /\ app = "realB"
    /\ \E i \in 1..Len(subs), r \in {"ok", "error"}, m \in ProcessorMessages :
        /\ subs[i].pc = "createPaymentMethod"
        /\ IF r = "ok"
           THEN /\ subs' = [subs EXCEPT ![i] = Advance(@, "createPaymentMethod", r,
                                "confirmCardPayment", "confirmCardPayment")]
                /\ ev' = Send("processor", "confirmCardPayment",
                              [client_secret |-> "cs_1", payment_method |-> "pm_1"])
                /\ UNCHANGED loading
           ELSE RealFormEnds(i, Refused(subs[i], "createPaymentMethod", r, m),
                             [kind |-> "error", text |-> <<m>>])
    /\ UNCHANGED <<app, cardValidation, charges, clientSecret, intents,
                   step, formData, paymentData, message, messageType,
                   userInfo, stripeLoaded, today, amount>>

RealPaymentForm_confirm ==
    /\ app = "realB"
    /\ \E i \in 1..Len(subs), r \in {"error"} \cup IntentStatuses,
          m \in ProcessorMessages :
        /\ subs[i].pc = "confirmCardPayment"
        /\ charges' = Charged(r)
        /\ IF r = "error"
           THEN RealFormEnds(i, Refused(subs[i], "confirmCardPayment", r, m),
                             [kind |-> "error", text |-> <<m>>])
           ELSE IF ~PaymentSucceeded(r)
           THEN RealFormEnds(i, Answered(subs[i], "confirmCardPayment", r),
                             [kind |-> "error",
                              text |-> <<"Payment was not successful.">>])
           ELSE /\ subs' = [subs EXCEPT ![i] = Advance(@, "confirmCardPayment", r,
                                "notify", "notify")]
                /\ ev' = Send("backend", "POST /stripe/confirm-payment", ConfirmBody)
                /\ UNCHANGED loading
    /\ UNCHANGED <<app, cardValidation, clientSecret, intents,
                   step, formData, paymentData, message, messageType,
                   userInfo, stripeLoaded, today, amount>>

RealPaymentForm_notify ==
    /\ app = "realB"
    /\ \E i \in 1..Len(subs), r \in {"ok", "fail"}, d \in ErrorDetails :
        /\ subs[i].pc = "notify"
        /\ IF r = "ok"
           THEN RealFormEnds(i, Answered(subs[i], "notify", r),
                             [kind |-> "success", text |-> <<"Payment successful!">>])
           ELSE RealFormEnds(i, Answered(subs[i], "notify", r), RealFormCatch(d))
    /\ UNCHANGED <<app, cardValidation, charges, clientSecret, intents,
                   step, formData, paymentData, message, messageType,
                   userInfo, stripeLoaded, today, amount>>

----------------------------------------------------------------------------
(* validateCardDetails (App.jsx:79-164; part_001:167-252 is a copy).  No   *)
(* handler calls it: SpecValidate applies it to the card data step 3 of    *)
(* App.jsx can hold.                                                       *)

\* how many of a card number's last digits the inputs vary over all digits
MaxTail == 4

\* the first twelve digits of the card numbers whose tail varies
LuhnPrefix == <<"4","2","4","2","4","2","4","2","4","2","4","2">>

CardTails == UNION {[1..n -> Digits] : n \in 1..MaxTail}

FilledFormData ==
    [full_name |-> "Ann", email |-> "a@b.c", phone |-> "555", amount |-> <<"2", "5">>]

\* card numbers of 13 to 12 + MaxTail digits, every other field valid
LuhnInputs ==
    {[payment_method |-> "visa", card_number |-> FormatCardNumber(LuhnPrefix \o tl),
      expiry_month |-> <<"1", "2">>, expiry_year |-> <<"2", "0", "2", "5">>,
      cvv |-> <<"1", "2", "3">>, cardholder_name |-> ""] : tl \in CardTails}

\* the four radio buttons of step 2
ValidateMethods == {"visa", "mastercard", "amex", "discover"}
ValidateCards  == {<<>>, <<"4", "2", "4", "2">>, Card4242, Card4241}
ValidateMonths == {<<>>, <<"0", "5">>, <<"0", "6">>}
ValidateYears  == {<<>>, <<"2", "0", "2", "4">>, <<"2", "0", "2", "5">>, <<"2", "0", "2", "6">>}
ValidateCvvs   == {<<>>, <<"1", "2", "3">>, <<"1", "2", "3", "4">>}

\* a few card numbers with every combination of the other fields
CheckInputs ==
    {[payment_method |-> pm, card_number |-> FormatCardNumber(cn),
      expiry_month |-> mm, expiry_year |-> yy, cvv |-> cv, cardholder_name |-> ""] :
        pm \in ValidateMethods, cn \in ValidateCards, mm \in ValidateMonths,
        yy \in ValidateYears, cv \in ValidateCvvs}

\* what POST /validate-card answers: response.data, or no response
ValidateResponses ==
    {[status |-> "ok",
      data |-> [valid |-> TRUE, card_type |-> "visa",
                masked_number |-> <<"************", "4", "2", "4", "2">>]],
     [status |-> "ok", data |-> [valid |-> FALSE, error |-> "Card declined"]],
     [status |-> "fail", data |-> [valid |-> FALSE, error |-> "timeout"]]}

ValidateBody(pd) ==
    [card_number |-> pd.card_number, expiry_month |-> pd.expiry_month,
     expiry_year |-> pd.expiry_year, cvv |-> pd.cvv]

NoResponse == [status |-> "none"]

\* return of validateCardDetails: its value, and the answer of the remote
\* call it had awaited
Return(s, value, resp) ==
    [type |-> "return", sub |-> s, value |-> value, resp |-> resp]

\* from the call to the first await (or the return of a failed local check)
validateCardDetails ==
    /\ app = "demo" /\ step = 3
    /\ subs = <<>> /\ ev = NoEvent
    /\ LET why == LocalCardCheck(paymentData, today)
       IN  IF why # "ok"
           THEN /\ message' = LocalCardMessage(paymentData, why)
                /\ messageType' = "error"
                /\ ev' = Return(NeverSuspended(formData, paymentData, userInfo),
                             FALSE, NoResponse)
                /\ UNCHANGED subs
           ELSE /\ subs' = Start(NewSub("validate", formData, paymentData,
                                         userInfo, "validate"))
                /\ ev' = Send("backend", "POST /validate-card", ValidateBody(paymentData))
                /\ UNCHANGED <<message, messageType>>
    /\ UNCHANGED <<app, cardValidation, charges, clientSecret, intents,
                   step, formData, paymentData, loading,
                   userInfo, stripeLoaded, today, amount>>

SynthesizedValidationOfFormatted(pd) ==
    [valid |-> TRUE, card_type |-> pd.payment_method,
     masked_number |-> <<"**** **** **** ">> \o SliceLast(pd.card_number, 4)]

\* the validation result of the catch block
SynthesizedValidation(pd) ==
    [valid |-> TRUE, card_type |-> pd.payment_method,
     masked_number |-> <<"**** **** **** ">> \o SliceLast(StripSpaces(pd.card_number), 4)]

RemoteAnswered(resp) == resp.status = "ok"

\* the try ran through and response.data.valid is truthy
RemoteSaysValid(resp) == resp.status = "ok" /\ resp.data.valid

\* await axios.post(`${API_BASE_URL}/validate-card`, ...) settles
validateCardDetails_remote ==
    /\ app = "demo"
    /\ \E i \in 1..Len(subs), resp \in ValidateResponses :
        /\ subs[i].pc = "validate"
        /\ subs' = RemoveAt(subs, i)
        /\ IF resp.status = "fail"
           THEN /\ cardValidation' = SynthesizedValidation(subs[i].pd)
                /\ ev' = Return(Answered(subs[i], "validate", "fail"), TRUE, resp)
                /\ UNCHANGED <<message, messageType>>
           ELSE IF RemoteSaysValid(resp)
           THEN /\ cardValidation' = resp.data
                /\ ev' = Return(Answered(subs[i], "validate", "ok"), TRUE, resp)
                /\ UNCHANGED <<message, messageType>>
           ELSE /\ message' = <<"Card validation failed: ", resp.data.error>>
                /\ messageType' = "error"
                /\ ev' = Return(Answered(subs[i], "validate", "ok"), FALSE, resp)
                /\ UNCHANGED cardValidation
    /\ UNCHANGED <<app, charges, clientSecret, intents, step, formData, paymentData, loading, userInfo,
                   stripeLoaded, today, amount>>

----------------------------------------------------------------------------
(* The card number input of App.jsx's step 3, keystroke by keystroke.      *)
(* SpecCard runs handlePaymentInputChange on the raw values the input can  *)
(* deliver for the stored value: a character typed at the end, the last or *)
(* the first character deleted, or a value pasted over the whole field.    *)
(* The input's maxLength is not modelled: raw values may be longer.        *)

\* a digit, the separator, and a character that is neither
TypedChars == {"4", " ", "-"}

PastedValues ==
    {Card4242,
     <<"4","2","4","2","-","4","2","4","2","-","4","2","4","2","-","4","2","4","2">>,
     <<"4","2","4","2","4","2","4","2","4","2","4","2","4","2","4","2","9","9","9">>,
     <<"4","2","4","2"," ","4","2","4","2"," ","4","2","4","2"," ","4","2","4","2"," ","9">>,
     <<" ","4","2"," "," ","4","a","2","4","2"," ">>}

\* e.target.value of the next change event of the card number input
RawValues(stored) ==
    {stored \o <<c>> : c \in TypedChars}
        \cup (IF stored = <<>> THEN {}
              ELSE {SubSeq(stored, 1, Len(stored) - 1), Tail(stored)})
        \cup PastedValues

\* handlePaymentInputChange with name === 'card_number'
handlePaymentInputChange_card_number ==
    /\ app = "demo" /\ step = 3
    /\ \E value \in RawValues(paymentData.card_number) :
        /\ paymentData' = [paymentData EXCEPT !.card_number = FormatCardNumber(value)]
        /\ ev' = [type |-> "change", name |-> "card_number", value |-> value]
    /\ UNCHANGED <<app, cardValidation, charges, clientSecret, intents,
                   step, formData, loading, message,
                   messageType, userInfo, stripeLoaded, today, amount, subs>>

----------------------------------------------------------------------------
(* part_003, lines 1-137: the RealPaymentForm that creates its payment     *)
(* intent when it is mounted and again whenever its amount prop changes,   *)
(* and confirms the card payment with the client secret it holds.          *)

\* the amounts the parent passes, in thousandths
AmountChoices == {25000, 40000}

\* a createPaymentIntent invocation at its await: amount is the prop of the
\* render whose closure it runs in; overtaken records that an invocation
\* started after it has already stored its client secret
NewIntent(a) == [amount |-> a, overtaken |-> FALSE]

\* the body of POST /create-payment-intent
SecretBody(a) == [amount |-> a, currency |-> "usd"]

\* response.data.client_secret of the intent created for a request
ClientSecretOf(req) == <<"secret of", req.amount>>

setClientSecretUnlessStale(req, secret) ==
    IF req.overtaken THEN secret ELSE ClientSecretOf(req)

\* setClientSecret(response.data.client_secret): the value stored when the
\* request req is answered while the state holds secret
setClientSecret(req, secret) == ClientSecretOf(req)

\* the invocations left suspended once the i-th has stored its secret
Overtake(i) ==
    RemoveAt([j \in 1..Len(intents) |->
                 IF j < i THEN [intents[j] EXCEPT !.overtaken = TRUE]
                 ELSE intents[j]], i)

\* the parent renders the form with another amount: the effect of
\* useEffect(..., [amount]) runs createPaymentIntent up to its await
AmountChanges ==
    /\ app = "realA"
    /\ Len(intents) < MaxInflight
    /\ \E a \in AmountChoices \ {amount} :
        /\ amount' = a
        /\ intents' = Append(intents, NewIntent(a))
        /\ ev' = Send("backend", "POST /create-payment-intent", SecretBody(a))
    /\ UNCHANGED <<app, cardValidation, charges, clientSecret, step, formData, paymentData,
                   loading, message, messageType, userInfo, stripeLoaded, today, subs>>

\* await axios.post(`${API_BASE_URL}/create-payment-intent`, ...) settles
createPaymentIntent ==
    /\ app = "realA"
    /\ \E i \in 1..Len(intents), r \in {"ok", "fail"} :
        IF r = "ok"
        THEN /\ clientSecret' = setClientSecret(intents[i], clientSecret)
             /\ intents' = Overtake(i)
             /\ ev' = [type |-> "answer", req |-> intents[i]]
        ELSE /\ intents' = RemoveAt(intents, i)
             /\ ev' = [type |-> "callback", kind |-> "error",
                       text |-> <<"Failed to initialize payment">>]
             /\ UNCHANGED clientSecret
    /\ UNCHANGED <<app, cardValidation, charges, step, formData, paymentData, loading, message,
                   messageType, userInfo, stripeLoaded, today, amount, subs>>

\* disabled={!stripe || loading} of the Pay button
SecretButtonDisabled == ~stripeLoaded \/ loading

\* a handleSubmit invocation of this form: secret is the clientSecret of
\* the render whose closure it runs in
NewSecretSub(call) ==
    [pc |-> call, secret |-> clientSecret, stripe |-> stripeLoaded,
     calls |-> <<call>>, res |-> NoResults, perr |-> "", solo |-> subs = <<>>]

\* how stripe.confirmCardPayment(clientSecret, ...) can settle: it resolves
\* with an error object or with a paymentIntent, or it rejects (Stripe.js
\* throws on a malformed client secret such as ''); without a client secret
\* there is no intent to confirm
ConfirmOutcomes(secret) ==
    IF secret = <<>> THEN {"error", "reject"}
    ELSE {"error", "reject"} \cup IntentStatuses

\* the form's onSubmit, up to its first await (or the early return)
RealPaymentFormA_handleSubmit ==
    /\ app = "realA"
    /\ ~SecretButtonDisabled
    /\ Len(subs) < MaxInflight
    /\ loading' = TRUE
    /\ IF ~stripeLoaded
       THEN /\ ev' = Finish(NewSecretSub("none"), "none", <<>>)
            /\ UNCHANGED subs
       ELSE /\ subs' = Start(NewSecretSub("confirmCardPayment"))
            /\ ev' = Send("stripe", "confirmCardPayment",
                          [client_secret |-> clientSecret])
    /\ UNCHANGED <<app, cardValidation, charges, clientSecret, intents, step, formData,
                   paymentData, message, messageType, userInfo, stripeLoaded,
                   today, amount>>

\* await stripe.confirmCardPayment(clientSecret, ...) settles
RealPaymentFormA_confirm ==
    /\ app = "realA"
    /\ \E i \in 1..Len(subs), m \in ProcessorMessages :
       \E out \in ConfirmOutcomes(subs[i].secret) :
        /\ subs[i].pc = "confirmCardPayment"
        /\ charges' = Charged(out)
        /\ IF out = "reject"
           THEN \* nothing catches the rejection: the handler ends here
                /\ subs' = RemoveAt(subs, i)
                /\ ev' = Finish(Answered(subs[i], "confirmCardPayment", out),
                                "none", <<>>)
                /\ UNCHANGED loading
           ELSE IF out = "error"
           THEN /\ subs' = RemoveAt(subs, i)
                /\ ev' = Finish(Refused(subs[i], "confirmCardPayment", out, m),
                                "error", <<m>>)
                /\ loading' = FALSE
           ELSE IF out = "succeeded"
           THEN /\ subs' = [subs EXCEPT ![i] = Advance(@, "confirmCardPayment", out,
                                                       "process", "process")]
                /\ ev' = Send("backend", "POST /process-real-payment",
                              [payment_intent_id |-> "pi_1"])
                /\ UNCHANGED loading
           ELSE /\ subs' = RemoveAt(subs, i)
                /\ ev' = Finish(Answered(subs[i], "confirmCardPayment", out),
                                "none", <<>>)
                /\ loading' = FALSE
    /\ UNCHANGED <<app, cardValidation, clientSecret, intents, step, formData,
                   paymentData, message, messageType, userInfo, stripeLoaded,
                   today, amount>>

\* await axios.post(`${API_BASE_URL}/process-real-payment`, ...) settles
RealPaymentFormA_process ==
    /\ app = "realA"
    /\ \E i \in 1..Len(subs), r \in {"ok", "fail"}, tid \in TransactionIds :
        /\ subs[i].pc = "process"
        /\ subs' = RemoveAt(subs, i)
        /\ ev' = IF r = "ok"
                 THEN Finish(Answered(subs[i], "process", r), "success",
                             <<"transaction_id", tid>>)
                 ELSE Finish(Answered(subs[i], "process", r), "error",
                             <<"Payment succeeded but failed to record transaction">>)
        /\ loading' = FALSE
    /\ UNCHANGED <<app, cardValidation, charges, clientSecret, intents, step, formData,
                   paymentData, message, messageType, userInfo, stripeLoaded,
                   today, amount>>

----------------------------------------------------------------------------
(* part_002: the RealPaymentForm whose Pay button creates the payment      *)
(* intent: onClick={createPaymentIntent} on the submit button of the form  *)
(* whose onSubmit is handleSubmit.                                         *)

\* handleUserInfoChange, bound to the three inputs of the form
RealPaymentFormC_handleUserInfoChange ==
    /\ app = "realC"
    /\ \/ \E v \in NameInputs  :
            /\ userInfo' = [userInfo EXCEPT !.full_name = v]
            /\ ev' = [type |-> "change", name |-> "full_name", value |-> v]
       \/ \E v \in EmailInputs :
            /\ userInfo' = [userInfo EXCEPT !.email = v]
            /\ ev' = [type |-> "change", name |-> "email", value |-> v]
       \/ \E v \in PhoneInputs :
            /\ userInfo' = [userInfo EXCEPT !.phone = v]
            /\ ev' = [type |-> "change", name |-> "phone", value |-> v]
    /\ UNCHANGED <<app, cardValidation, charges, clientSecret, intents, step,
                   formData, paymentData, loading, message, messageType,
                   stripeLoaded, today, amount, subs>>

\* the parent renders the form with another amount; nothing in the form
\* reacts to it but the label of the button
AmountPropChanges ==
    /\ app = "realC"
    /\ \E a \in AmountChoices \ {amount} :
        /\ amount' = a
        /\ ev' = [type |-> "props", amount |-> a]
    /\ UNCHANGED <<app, cardValidation, charges, clientSecret, intents, step,
                   formData, paymentData, loading, message, messageType,
                   userInfo, stripeLoaded, today, subs>>

\* disabled={!stripe || loading || !clientSecret} of the Pay button
PayButtonDisabled == ~stripeLoaded \/ loading \/ clientSecret = <<>>

\* a click on the Pay button: its onClick runs createPaymentIntent up to the
\* await (or to the return after onError), then the form's submit event
\* runs handleSubmit up to its await; a disabled button receives no click
\* and submits nothing
RealPaymentFormC_click ==
    /\ app = "realC"
    /\ ~PayButtonDisabled
    /\ Len(subs) < MaxInflight /\ Len(intents) < MaxInflight
    /\ intents' = IF UserInfoMissing(userInfo) THEN intents
                  ELSE Append(intents, NewIntent(amount))
    /\ loading' = TRUE
    /\ subs' = Start(NewSecretSub("confirmCardPayment"))
    /\ ev' = Send("stripe", "confirmCardPayment",
                  [client_secret |-> clientSecret])
    /\ UNCHANGED <<app, cardValidation, charges, clientSecret, step, formData,
                   paymentData, message, messageType, userInfo, stripeLoaded,
                   today, amount>>

----------------------------------------------------------------------------
Init ==
    /\ app \in Variants
    /\ step = 1
    /\ formData = EmptyFormData
    /\ paymentData = DefaultPaymentData
    /\ loading = FALSE
    /\ message = NoMessage
    /\ messageType = ""
    /\ userInfo = EmptyUserInfo
    /\ stripeLoaded = FALSE
    /\ today = <<2025, 6>>
    /\ amount \in AmountProps
    /\ cardValidation = NoValidation
    /\ clientSecret = <<>>
    /\ intents = <<>>
    /\ charges = 0
    /\ subs = <<>>
    /\ ev = NoEvent

Next ==
    \/ handleInputChange
    \/ selectPaymentMethod
    \/ handlePaymentInputChange
    \/ handleNextStep
    \/ Back
    \/ handleSubmit
    \/ handleSubmit_health
    \/ handleSubmit_create
    \/ StripeLoads
    \/ PaymentForm_handleSubmit
    \/ PaymentForm_intent
    \/ PaymentForm_paymentMethod
    \/ PaymentForm_confirm
    \/ PaymentForm_notify
    \/ handleUserInfoChange
    \/ handleContinue
    \/ RealPaymentForm_handleSubmit
    \/ RealPaymentForm_intent
    \/ RealPaymentForm_paymentMethod
    \/ RealPaymentForm_confirm
    \/ RealPaymentForm_notify

Spec == Init /\ [][Next]_vars

\* validateCardDetails applied to the card data of a form at step 3
InitValidate ==
    /\ app = "demo"
    /\ step = 3
    /\ formData = FilledFormData
    /\ paymentData \in LuhnInputs \cup CheckInputs
    /\ loading = FALSE
    /\ message = NoMessage
    /\ messageType = ""
    /\ userInfo = EmptyUserInfo
    /\ stripeLoaded = FALSE
    /\ today = <<2025, 6>>
    /\ amount \in AmountProps
    /\ cardValidation = NoValidation
    /\ clientSecret = <<>>
    /\ intents = <<>>
    /\ charges = 0
    /\ subs = <<>>
    /\ ev = NoEvent

NextValidate ==
    \/ validateCardDetails
    \/ validateCardDetails_remote

SpecValidate == InitValidate /\ [][NextValidate]_vars

\* step 3 of App.jsx as the wizard first shows it, or shows it again after
\* a reset: the card fields empty
InitCard ==
    /\ app = "demo"
    /\ step = 3
    /\ formData = FilledFormData
    /\ paymentData \in {[DefaultPaymentData EXCEPT !.payment_method = pm] :
                            pm \in PaymentMethods}
    /\ loading = FALSE
    /\ message = NoMessage
    /\ messageType = ""
    /\ userInfo = EmptyUserInfo
    /\ stripeLoaded = FALSE
    /\ today = <<2025, 6>>
    /\ amount \in AmountProps
    /\ cardValidation = NoValidation
    /\ clientSecret = <<>>
    /\ intents = <<>>
    /\ charges = 0
    /\ subs = <<>>
    /\ ev = NoEvent

NextCard == handlePaymentInputChange_card_number

SpecCard == InitCard /\ [][NextCard]_vars

\* the form of part_003, lines 1-137, once it is mounted: the effect of the
\* first render has called createPaymentIntent
InitIntent ==
    /\ app = "realA"
    /\ step = 1
    /\ formData = EmptyFormData
    /\ paymentData = DefaultPaymentData
    /\ loading = FALSE
    /\ message = NoMessage
    /\ messageType = ""
    /\ userInfo = EmptyUserInfo
    /\ stripeLoaded = FALSE
    /\ today = <<2025, 6>>
    /\ amount \in AmountChoices
    /\ cardValidation = NoValidation
    /\ clientSecret = <<>>
    /\ intents = <<NewIntent(amount)>>
    /\ charges = 0
    /\ subs = <<>>
    /\ ev = Send("backend", "POST /create-payment-intent", SecretBody(amount))

NextIntent ==
    \/ AmountChanges
    \/ createPaymentIntent
    \/ StripeLoads
    \/ RealPaymentFormA_handleSubmit
    \/ RealPaymentFormA_confirm
    \/ RealPaymentFormA_process

SpecIntent == InitIntent /\ [][NextIntent]_vars

\* every remote call the form is waiting for settles in the end; what the
\* user and the parent do is up to them
SpecIntentFair ==
    /\ SpecIntent
    /\ WF_vars(createPaymentIntent)
    /\ WF_vars(RealPaymentFormA_confirm)
    /\ WF_vars(RealPaymentFormA_process)

\* the form of part_002 as it is mounted.  RealPaymentFormC_click is left out
\* of the next-state relation: its guard is false in every reachable state
\* (see C31), so it adds no step
InitButton ==
    /\ app = "realC"
    /\ step = 1
    /\ formData = EmptyFormData
    /\ paymentData = DefaultPaymentData
    /\ loading = FALSE
    /\ message = NoMessage
    /\ messageType = ""
    /\ userInfo = EmptyUserInfo
    /\ stripeLoaded = FALSE
    /\ today = <<2025, 6>>
    /\ amount \in AmountChoices
    /\ cardValidation = NoValidation
    /\ clientSecret = <<>>
    /\ intents = <<>>
    /\ charges = 0
    /\ subs = <<>>
    /\ ev = NoEvent

NextButton ==
    \/ RealPaymentFormC_handleUserInfoChange
    \/ AmountPropChanges
    \/ StripeLoads

\* loadStripe(...) resolves in the end; what the user does is up to them
SpecButton ==
    /\ InitButton /\ [][NextButton]_vars
    /\ WF_vars(StripeLoads)

----------------------------------------------------------------------------
(* Vocabulary of the properties *)

Sent(endpoint) == ev.type = "send" /\ ev.endpoint = endpoint

Finished == ev.type = "finish"

\* the submissions the state knows: the suspended ones and the one that
\* has just finished
SubsNow ==
    {subs[i] : i \in 1..Len(subs)} \cup (IF Finished THEN {ev.sub} ELSE {})

Has(seq, x) == \E i \in 1..Len(seq) : seq[i] = x

IsPrefix(a, b) == Len(a) <= Len(b) /\ SubSeq(b, 1, Len(a)) = a

\* the card a POST /transactions/create body carries
CardOf(body) ==
    [payment_method |-> body.payment_method,
     card_number |-> body.card_details.card_number,
     expiry_month |-> body.card_details.expiry_month,
     expiry_year |-> body.card_details.expiry_year,
     cvv |-> body.card_details.cvv,
     cardholder_name |-> body.card_details.cardholder_name]

CarriesCardData(body) ==
    \/ "card_number" \in DOMAIN body
    \/ "cvv" \in DOMAIN body
    \/ /\ "card_details" \in DOMAIN body
       /\ \/ body.card_details.card_number # <<>>
          \/ body.card_details.cvv # <<>>

DemoReference(text) == Len(text) >= 2 /\ text[2] = "DEMO-"

----------------------------------------------------------------------------
(* C1: a request that carries identity fields together with card details   *)
(* (POST /transactions/create) is sent only for a card that passes the     *)
(* local checks of validateCardDetails: presence, length, Luhn, expiry,    *)
(* CVV length.  App.jsx's handleSubmit never calls validateCardDetails.    *)
C1_CardSentOnlyIfLocallyValid ==
    Sent("POST /transactions/create") =>
        LocalCardCheck(CardOf(ev.body), today) = "ok"

(* C2: no request to the backend carries the card number or the CVV.       *)
C2_NoCardDataToBackend ==
    (ev.type = "send" /\ ev.to = "backend") => ~CarriesCardData(ev.body)

(* C3: in App.jsx and in the two-step RealPaymentForm at most one          *)
(* handleSubmit is suspended at any time, and loading is true while it is. *)
C3_SingleSubmissionInFlight ==
    app \in {"demo", "realB"} =>
        /\ Len(subs) <= 1
        /\ Len(subs) = 1 => loading

\* a submission is suspended, the user has gone Back and forward again, and
\* the Pay Now button is shown disabled
C3_Witness ==
    /\ app = "demo" /\ Len(subs) = 1 /\ step = 3
    /\ ev = NoEvent /\ message = NoMessage /\ PayNowDisabled
    /\ paymentData # subs[1].pd

(* C4: a submission whose payment the processor confirmed as succeeded and *)
(* whose notification POST /stripe/confirm-payment failed still ends in    *)
(* success (for the wizard: fields reset, step 1).                         *)
C4_NotifyFailureStillSuccess ==
    (/\ Finished /\ app \in {"stripe", "realB"}
     /\ ev.sub.res["confirmCardPayment"] = "succeeded"
     /\ ev.sub.res["notify"] = "fail")
    => /\ ev.kind = "success"
       /\ app = "stripe" => (messageType = "success" /\ step = 1
                             /\ formData = EmptyFormData)

(* C5: a failed health probe ends the submission in success with a DEMO-   *)
(* reference and with no call after the probe; POST /transactions/create   *)
(* is sent only by a submission whose own probe succeeded.                 *)
C5_HealthFailureIsDemoSuccess ==
    /\ (Finished /\ app = "demo" /\ ev.sub.res["health"] = "fail") =>
          /\ ev.kind = "success" /\ messageType = "success"
          /\ DemoReference(ev.text) /\ message = ev.text
          /\ ev.sub.calls = <<"health">>
    /\ Sent("POST /transactions/create") =>
          \E i \in 1..Len(subs) :
              /\ subs[i].pc = "create"
              /\ subs[i].res["health"] = "ok"
              /\ ev.body = paymentPayload(subs[i].fd, subs[i].pd)
    /\ \A s \in SubsNow : Has(s.calls, "create") => s.res["health"] = "ok"

C5_Witness ==
    /\ Finished /\ app = "demo" /\ ev.sub.res["health"] = "fail"
    /\ ev.kind = "success" /\ ~CardFieldsMissing(ev.sub.pd)

(* C6: a submission whose probe succeeded and whose POST                   *)
(* /transactions/create failed ends in success with a DEMO- reference,     *)
(* never in an error.                                                      *)
C6_CreateFailureIsDemoSuccess ==
    (/\ Finished /\ app = "demo"
     /\ ev.sub.res["health"] = "ok" /\ ev.sub.res["create"] = "fail")
    => /\ ev.kind = "success" /\ messageType = "success"
       /\ DemoReference(ev.text) /\ message = ev.text

C6_Witness ==
    /\ Finished /\ app = "demo"
    /\ ev.sub.res["health"] = "ok" /\ ev.sub.res["create"] = "fail"
    /\ messageType = "success"

C8_SuccessResetsForm ==
    (Finished /\ app \in {"demo", "stripe"} /\ ev.kind = "success") =>
        /\ messageType = "success"
        /\ formData = EmptyFormData
        /\ paymentData = DefaultPaymentData
        /\ step = 1

C8_Witness ==
    /\ Finished /\ app = "demo" /\ ev.kind = "success"
    /\ ev.sub.res["create"] = "ok" /\ ev.sub.pd.payment_method = "amex"
    /\ paymentData = DefaultPaymentData /\ step = 1

\* the processor refused: createPaymentMethod or confirmCardPayment returned
\* an error, or the confirmed intent's status is not "succeeded"
ProcessorFailure(s) ==
    \/ s.res["createPaymentMethod"] = "error"
    \/ s.res["confirmCardPayment"] \in {"error"} \cup (IntentStatuses \ {"succeeded"})

ProcessorFailureText(s) ==
    IF s.res["confirmCardPayment"] \in IntentStatuses
    THEN <<"Payment was not successful.">>
    ELSE <<s.perr>>

(* C9: a PaymentForm submission that the processor refuses ends with       *)
(* message kind error, the processor's message verbatim (or "Payment was   *)
(* not successful."), step, identity and card fields as they were (step 3  *)
(* when no other submission ran beside it), and loading cleared.           *)
C9_ProcessorFailureIsError ==
    [][ (ev'.type = "finish" /\ app = "stripe" /\ ProcessorFailure(ev'.sub)) =>
          /\ ev'.kind = "error" /\ messageType' = "error"
          /\ message' = ProcessorFailureText(ev'.sub)
          /\ step' = step
          /\ ev'.sub.solo => step' = 3
          /\ formData' = formData /\ paymentData' = paymentData
          /\ loading' = FALSE ]_vars

C9_Witness ==
    /\ Finished /\ app = "stripe" /\ ev.sub.res["confirmCardPayment"] = "processing"
    /\ ev.sub.solo /\ step = 3 /\ ~loading
    /\ message = <<"Payment was not successful.">>

StripeSequence == <<"intent", "createPaymentMethod", "confirmCardPayment", "notify">>

(* C10: in PaymentForm and in the two-step RealPaymentForm every           *)
(* submission makes its remote calls in the order intent, payment method,  *)
(* confirm, notify, each only after the one before it succeeded.           *)
C10_FixedOrderShortCircuit ==
    app \in {"stripe", "realB"} =>
        \A s \in SubsNow :
            /\ IsPrefix(s.calls, StripeSequence)
            /\ Has(s.calls, "createPaymentMethod") => s.res["intent"] = "ok"
            /\ Has(s.calls, "confirmCardPayment") => s.res["createPaymentMethod"] = "ok"
            /\ Has(s.calls, "notify") => s.res["confirmCardPayment"] = "succeeded"
            /\ \A c \in CallNames : s.res[c] # "none" => Has(s.calls, c)

C10_Witness ==
    /\ app = "realB" /\ Finished /\ ev.sub.calls = StripeSequence
    /\ ev.sub.res["notify"] = "ok"

----------------------------------------------------------------------------
\* the identity fields are all non-empty / the amount is greater than 0
IdentityPresent ==
    /\ formData.full_name # "" /\ formData.email # ""
    /\ formData.phone # "" /\ formData.amount # <<>>

AmountPositive == ParseFloatMilli(formData.amount) > 0

(* C11: from step 1 handleNextStep moves to step 2 exactly when the four   *)
(* identity fields are non-empty and the amount is greater than 0;         *)
(* otherwise the step stays 1, no field changes, and the message is the    *)
(* error "Please fill in all fields" (a field is empty) or "Amount must be *)
(* greater than 0" (all present, amount not positive).                     *)
C11_AdvanceFromStepOne ==
    [][ (handleNextStep /\ step = 1) =>
          /\ formData' = formData /\ paymentData' = paymentData
          /\ IF IdentityPresent /\ AmountPositive
             THEN step' = 2
             ELSE /\ step' = 1
                  /\ messageType' = "error"
                  /\ message' = IF IdentityPresent
                                THEN <<"Amount must be greater than 0">>
                                ELSE <<"Please fill in all fields">> ]_vars

C11_Witness ==
    /\ Wizard /\ step = 1 /\ IdentityPresent /\ ~AmountPositive
    /\ messageType = "error" /\ message = <<"Amount must be greater than 0">>

\* a card field that the submit handlers of the wizards would find empty
SomeCardFieldEmpty ==
    \/ paymentData.card_number = <<>> \/ paymentData.expiry_month = <<>>
    \/ paymentData.expiry_year = <<>> \/ paymentData.cvv = <<>>

FailsFast ==
    /\ ev'.type = "finish" /\ ev'.sub.calls = <<>>
    /\ subs' = subs
    /\ messageType' = "error"
    /\ message' = <<"Please fill in all card details">>
    /\ loading' = FALSE
    /\ step' = step /\ formData' = formData /\ paymentData' = paymentData

(* C12: a submission of either wizard that is started with a card field    *)
(* missing fails fast: error "Please fill in all card details", no         *)
(* request, busy flag cleared, step and fields unchanged.  PaymentForm of  *)
(* part_001 has no presence check.                                         *)
C12_MissingCardFieldFailsFast ==
    [][ ((handleSubmit \/ PaymentForm_handleSubmit) /\ SomeCardFieldEmpty)
            => FailsFast ]_vars

----------------------------------------------------------------------------
(* Properties of validateCardDetails, under SpecValidate *)

\* validateCardDetails has run its local checks on paymentData: it returned
\* false without a request, or it sent the remote request
LocallySettled ==
    \/ ev.type = "return" /\ ev.sub.calls = <<>>
    \/ ev.type = "send" /\ ev.endpoint = "POST /validate-card"

\* validateCardDetails has returned after its remote call
RemotelySettled == ev.type = "return" /\ ev.sub.calls = <<"validate">>

CardDigits == StripSpaces(paymentData.card_number)

AllCardFieldsPresent ==
    /\ paymentData.card_number # <<>> /\ paymentData.expiry_month # <<>>
    /\ paymentData.expiry_year # <<>> /\ paymentData.cvv # <<>>

CardLengthInRange == Len(CardDigits) >= 13 /\ Len(CardDigits) <= 19

\* the card reaches the checksum
ReachesLuhn == AllCardFieldsPresent /\ CardLengthInRange

Rejected(text) ==
    /\ ev.type = "return" /\ ev.value = FALSE
    /\ messageType = "error" /\ message = text

\* a doubled digit, 9 subtracted when it exceeds 9
DoubleDigit(v) == IF 2 * v > 9 THEN 2 * v - 9 ELSE 2 * v

\* the sum over a sequence of digit values in which the digits at the odd
\* (doubleOdd) or the even 0-indexed positions are doubled
RECURSIVE PositionalSum(_, _, _)
PositionalSum(vals, k, doubleOdd) ==
    IF k >= Len(vals) THEN 0
    ELSE (IF (k % 2 = 1) = doubleOdd THEN DoubleDigit(vals[k + 1]) ELSE vals[k + 1])
         + PositionalSum(vals, k + 1, doubleOdd)

DigitValues(num) == [i \in 1..Len(num) |-> DigitVal(num[i])]

\* the standard Luhn algorithm: from the right, every second digit doubled
StandardLuhn(num) ==
    PositionalSum(DigitValues(Reverse(num)), 0, TRUE) % 10 = 0

\* the checksum as the specification words it: the first digit of the
\* reversed sequence held out, the digits at odd positions of the reversed
\* remainder doubled
SpecifiedLuhn(num) ==
    LET vals == DigitValues(Reverse(num))
    IN  (PositionalSum(Tail(vals), 0, TRUE) + Head(vals)) % 10 = 0

(* C13: for every card number of 13 to 19 digits that reaches the checksum *)
(* validateCardDetails reports "Invalid card number" exactly when the      *)
(* standard Luhn algorithm rejects the number.                             *)
C13_LuhnAcceptsExactlyValid ==
    (LocallySettled /\ ReachesLuhn) =>
        (Rejected(<<"Invalid card number">>) <=> ~StandardLuhn(CardDigits))

(* C14: luhnCheck accepts a card number exactly when the checksum worded   *)
(* in the specification (held-out first digit, odd positions of the        *)
(* reversed remainder doubled, 9 subtracted above 9) is 0 mod 10.          *)
C14_LuhnAsSpecified ==
    (LocallySettled /\ ReachesLuhn) =>
        (Rejected(<<"Invalid card number">>) <=> ~SpecifiedLuhn(CardDigits))

YearOfExpiry == ParseInt(paymentData.expiry_year)

MonthOfExpiry == ParseInt(paymentData.expiry_month)

InThePast ==
    \/ YearOfExpiry < today[1]
    \/ YearOfExpiry = today[1] /\ MonthOfExpiry < today[2]

CvvLengthRight ==
    Len(paymentData.cvv) = (IF paymentData.payment_method = "amex" THEN 4 ELSE 3)

BrandName ==
    CASE paymentData.payment_method = "visa" -> "VISA"
      [] paymentData.payment_method = "mastercard" -> "MASTERCARD"
      [] paymentData.payment_method = "amex" -> "AMEX"
      [] paymentData.payment_method = "discover" -> "DISCOVER"

CvvText ==
    IF paymentData.payment_method = "amex"
    THEN <<"CVV must be ", "4", " digits for ", BrandName>>
    ELSE <<"CVV must be ", "3", " digits for ", BrandName>>

(* C15: validateCardDetails checks presence, digit length, checksum,       *)
(* expiry and CVV length in this order; the message is that of the first   *)
(* failing check, and POST /validate-card is sent only when all five pass. *)
C15_ChecksInOrder ==
    LocallySettled =>
        IF ~AllCardFieldsPresent THEN Rejected(<<"Please fill in all card details">>)
        ELSE IF ~CardLengthInRange THEN Rejected(<<"Invalid card number length">>)
        ELSE IF ~luhnCheck(CardDigits) THEN Rejected(<<"Invalid card number">>)
        ELSE IF InThePast THEN Rejected(<<"Card has expired">>)
        ELSE IF ~CvvLengthRight THEN Rejected(CvvText)
        ELSE ev.type = "send" /\ message = NoMessage

\* an expired card with a CVV of the wrong length
C15_Witness ==
    /\ LocallySettled /\ AllCardFieldsPresent /\ CardLengthInRange
    /\ luhnCheck(CardDigits) /\ InThePast /\ ~CvvLengthRight
    /\ message = <<"Card has expired">>

\* the card reaches the expiry check
ReachesExpiry == ReachesLuhn /\ luhnCheck(CardDigits)

(* C16: a card that reaches the expiry check is rejected as expired        *)
(* exactly when its year is before the current year, or is the current     *)
(* year with a month before the current month; the current month passes.   *)
C16_ExpiredExactlyWhenInThePast ==
    (LocallySettled /\ ReachesExpiry) =>
        (Rejected(<<"Card has expired">>) <=> InThePast)

\* today is 2025-06: 06/2025 passes the expiry check
C16_Witness ==
    /\ LocallySettled /\ ReachesExpiry
    /\ YearOfExpiry = today[1] /\ MonthOfExpiry = today[2]
    /\ ev.type = "send"

(* C17: a card that reaches the CVV check passes it exactly when the CVV   *)
(* has 4 characters for amex and 3 for any other method; otherwise the     *)
(* message names the required length and the brand in upper case.          *)
C17_CvvLengthByBrand ==
    (LocallySettled /\ ReachesExpiry /\ ~InThePast) =>
        IF CvvLengthRight THEN ev.type = "send" ELSE Rejected(CvvText)

\* amex with a CVV of three digits
C17_Witness ==
    /\ LocallySettled /\ ReachesExpiry /\ ~InThePast
    /\ paymentData.payment_method = "amex" /\ Len(paymentData.cvv) = 3
    /\ message = <<"CVV must be ", "4", " digits for ", "AMEX">>

\* the last four digits of the card number
LastFourDigits == SubSeq(CardDigits, Len(CardDigits) - 3, Len(CardDigits))

(* C18: when POST /validate-card errors or times out for a card that       *)
(* passed the local checks, validateCardDetails returns true, sets no      *)
(* message, and stores valid = true, card_type = the payment method and    *)
(* the mask "**** **** **** " followed by the last four digits.            *)
C18_RemoteFailureSynthesizes ==
    [][ (ev'.type = "return" /\ ev'.resp.status = "fail") =>
          /\ ev'.value = TRUE
          /\ message' = message /\ messageType' = messageType
          /\ cardValidation' =
                [valid |-> TRUE, card_type |-> paymentData.payment_method,
                 masked_number |-> <<"**** **** **** ">> \o LastFourDigits] ]_vars

\* a card number of thirteen digits
C18_Witness ==
    /\ RemotelySettled /\ ev.resp.status = "fail"
    /\ Len(CardDigits) = 13 /\ cardValidation.valid
    /\ message = NoMessage

(* C19, as stated: for a card that passed the local checks                 *)
(* validateCardDetails returns true whatever the remote call does.         *)
C19_RemoteNeverInvalidates ==
    RemotelySettled => ev.value = TRUE

(* C19, amended: for a card that passed the local checks                   *)
(* validateCardDetails returns true when the remote call errors or times   *)
(* out, or answers with valid truthy (the answer is stored); when the      *)
(* remote answers with valid falsy it returns false with the error "Card   *)
(* validation failed: " followed by the answer's error, and stores nothing.*)
C19_RemoteVerdict ==
    [][ (ev'.type = "return" /\ ev'.sub.calls = <<"validate">>) =>
          IF ev'.resp.status = "ok" /\ ~ev'.resp.data.valid
          THEN /\ ev'.value = FALSE
               /\ messageType' = "error"
               /\ message' = <<"Card validation failed: ", ev'.resp.data.error>>
               /\ cardValidation' = cardValidation
          ELSE /\ ev'.value = TRUE
               /\ message' = message /\ messageType' = messageType
               /\ ev'.resp.status = "ok" => cardValidation' = ev'.resp.data ]_vars

C19_Witness ==
    /\ RemotelySettled /\ ev.resp.status = "ok" /\ ~ev.resp.data.valid
    /\ ev.value = FALSE /\ cardValidation = NoValidation
    /\ message = <<"Card validation failed: ", "Card declined">>

----------------------------------------------------------------------------
(* The stored card number *)

DigitCount(s) == Len(StripNonDigits(s))

\* five digits in a row starting at position i
FiveDigitsAt(s, i) == \A j \in i..(i + 4) : s[j] \in Digits

WellFormedCardNumber(s) ==
    /\ Len(s) <= 19
    /\ \A i \in 1..Len(s) : s[i] \in Digits \cup {" "}
    /\ \A i \in 1..(Len(s) - 1) : ~(s[i] = " " /\ s[i + 1] = " ")
    /\ s # <<>> => (s[1] # " " /\ s[Len(s)] # " ")
    /\ \A i \in 1..(Len(s) - 4) : ~FiveDigitsAt(s, i)
    /\ DigitCount(s) <= 16

(* C20: after any sequence of card number input events the stored          *)
(* card_number has at most 19 characters, only digits and single           *)
(* separators, digit groups of at most 4, no leading or trailing separator *)
(* and at most 16 digits.                                                  *)
C20_StoredCardNumberWellFormed ==
    WellFormedCardNumber(paymentData.card_number)

\* a raw value of more than 19 characters with separators of its own
C20_Witness ==
    /\ ev.type = "change" /\ Len(ev.value) > 19
    /\ DigitCount(ev.value) > 16 /\ DigitCount(ev.value) < Len(ev.value)
    /\ DigitCount(paymentData.card_number) = 16
    /\ Len(paymentData.card_number) = 19

----------------------------------------------------------------------------
(* Formatting what is already formatted *)

(* C21: formatting the card number is idempotent: the value the form       *)
(* stores after a change event is the formatted raw value, and formatting  *)
(* the stored value again yields the same string.                          *)
C21_FormattingIdempotent ==
    ev.type = "change" =>
        /\ paymentData.card_number = FormatCardNumber(ev.value)
        /\ FormatCardNumber(paymentData.card_number) = paymentData.card_number

\* a pasted value that formatting changes: its separators are not spaces
C21_Witness ==
    /\ ev.type = "change"
    /\ ev.value # paymentData.card_number
    /\ \E i \in 1..Len(ev.value) : ev.value[i] = "-"
    /\ Len(paymentData.card_number) = 19
    /\ FormatCardNumber(paymentData.card_number) = paymentData.card_number

----------------------------------------------------------------------------
(* The range of the wizard's step *)

(* C22: the wizard starts at step 1, its step is 1, 2 or 3 in every        *)
(* reachable state, and Back leads from step 3 to step 2 and from step 2   *)
(* to step 1 and is offered at no other step.                              *)
C22_StepInRange ==
    /\ Wizard => step = 1
    /\ [](Wizard => step \in {1, 2, 3})
    /\ [][Wizard /\ Back => /\ step \in {2, 3}
                            /\ step' = step - 1
                            /\ step' \in {1, 2}]_vars

\* App.jsx after Back from step 3: the card number typed at step 3 is there
\* and the wizard shows step 2
C22_Witness ==
    /\ app = "demo" /\ step = 2
    /\ paymentData.card_number # <<>>
    /\ subs = <<>> /\ ev = NoEvent

----------------------------------------------------------------------------
(* Advancing from step 2 *)

(* C23: at step 2 the Continue button can always be used, whatever the     *)
(* payment method and the card fields hold, and it moves the wizard to     *)
(* step 3, leaves no message on display and changes no form field.         *)
C23_AdvanceFromStepTwo ==
    /\ [](Wizard /\ step = 2 => ENABLED handleNextStep)
    /\ [][handleNextStep /\ step = 2 =>
             /\ step' = 3
             /\ message' = NoMessage
             /\ formData' = formData
             /\ paymentData' = paymentData]_vars

\* part_001 reaches step 3 through Continue only: here with the second
\* payment method chosen, and after an error at step 1 whose type is still
\* set while its text is gone
C23_Witness ==
    /\ app = "stripe" /\ step = 3
    /\ paymentData.payment_method = "amex"
    /\ message = NoMessage /\ messageType = "error"
    /\ subs = <<>> /\ ev = NoEvent

----------------------------------------------------------------------------
(* The reference a success message carries *)

\* the message ends with an identifier the backend returned
RealReference(text) == Len(text) >= 2 /\ text[2] \in TransactionIds

\* the submission that has just finished went through the wizard's backend:
\* App.jsx's POST /transactions/create answered, or part_001's whole
\* sequence up to the backend's confirmation answered
BackendTransactionMade ==
    \/ ev.sub.res["create"] = "ok"
    \/ ev.sub.res["notify"] = "ok"

BackendFailed ==
    ev.sub.res["health"] = "fail" \/ ev.sub.res["create"] = "fail"

(* C24: a success message carries a transaction identifier returned by the *)
(* backend exactly when the submission created a backend transaction, a    *)
(* DEMO- reference exactly when the health probe or the creation failed,   *)
(* and always exactly one of the two.                                      *)
C24_SuccessCarriesOneReference ==
    (Wizard /\ Finished /\ ev.kind = "success") =>
        /\ RealReference(ev.text) <=> BackendTransactionMade
        /\ DemoReference(ev.text) <=> BackendFailed
        /\ RealReference(ev.text) # DemoReference(ev.text)

----------------------------------------------------------------------------
(* Answers that arrive out of order *)

(* C25: nothing guards against a stale response: whenever a                *)
(* createPaymentIntent request is answered, its client secret is stored,   *)
(* also when a request issued after it has been answered before it.        *)
C25_StaleAnswerOverwrites ==
    ev.type = "answer" => clientSecret = ClientSecretOf(ev.req)

\* the request for the earlier amount answered last: no request is
\* outstanding and the form holds the secret of an amount it no longer shows
C25_Witness ==
    /\ ev.type = "answer" /\ ev.req.overtaken
    /\ intents = <<>>
    /\ ev.req.amount # amount
    /\ clientSecret = ClientSecretOf(ev.req)

----------------------------------------------------------------------------
(* The amount a payment intent is created for *)

\* the submission whose handler has just sent a request: the youngest
SenderOfRequest == subs[Len(subs)]

(* C26: every request that creates a payment intent for the wizard carries *)
(* round(amount * 100) of the amount that passed the check of step 1, and  *)
(* that is an integer of at least 1.                                       *)
C26_IntentAmountAtLeastOneCent ==
    (app = "stripe" /\ Sent("POST /stripe/create-payment-intent")) =>
        /\ ev.body.amount = RoundCents(ParseFloatMilli(SenderOfRequest.fd.amount))
        /\ ev.body.amount >= 1

----------------------------------------------------------------------------
(* One charge for one form *)

(* C27: for one filled-in form the customer is charged at most once:       *)
(* confirmCardPayment returns 'succeeded' at most once before the form is  *)
(* reset.                                                                  *)
C27_ChargedAtMostOnce == charges <= 1

----------------------------------------------------------------------------
(* Submissions come to an end *)

(* C28: every started submission eventually finishes with loading false,   *)
(* given that every remote call eventually resolves or rejects: whenever   *)
(* loading is true it is false again later.                                *)
C28_LoadingEventuallyCleared == loading ~> ~loading

----------------------------------------------------------------------------
(* The form while a submission is in flight *)

\* what the user can do to the wizard besides submitting
UserAction ==
    \/ handleInputChange
    \/ selectPaymentMethod
    \/ handlePaymentInputChange
    \/ handleNextStep
    \/ Back

(* C29: while a submission of the wizard is in flight (loading is true) no *)
(* user action changes the step, the identity fields or the card fields.   *)
C29_FormFrozenWhileLoading ==
    [][(Wizard /\ loading /\ UserAction) =>
          /\ step' = step
          /\ formData' = formData
          /\ paymentData' = paymentData]_vars

----------------------------------------------------------------------------
(* What the later steps can rely on *)

(* C30: whenever the wizard is at step 2 or 3, full_name, email, phone and *)
(* amount are all non-empty and the amount is greater than 0.              *)
C30_LaterStepsHaveIdentity ==
    (Wizard /\ step \in {2, 3}) => (IdentityPresent /\ AmountPositive)

\* step 3 reached a second time: an earlier submission has succeeded and
\* reset the form, and the form has been filled in again, with the smallest
\* amount the check of step 1 lets through
C30_Witness ==
    /\ Wizard /\ step = 3
    /\ messageType = "success" /\ message = NoMessage
    /\ formData.amount = <<"0", ".", "0", "0", "4">>
    /\ IdentityPresent /\ AmountPositive

----------------------------------------------------------------------------
(* The Pay button of part_002 *)

\* the library is loaded and the three user-info fields are filled in
ReadyToPay == stripeLoaded /\ ~UserInfoMissing(userInfo)

\* in every state of the form the Pay button is disabled: the client secret
\* it waits for is requested by its own onClick only
PayButtonStaysDisabled == app = "realC" => PayButtonDisabled

(* C31: in part_002, once the processor library is loaded and the user     *)
(* info is filled in, the Pay button becomes enabled: a click on it is     *)
(* possible and starts the confirmation of a payment.                      *)
C31_PayButtonBecomesEnabled ==
    ReadyToPay ~> ENABLED RealPaymentFormC_click

----------------------------------------------------------------------------
(* The PAY NOW button of part_001 *)

(* C32: at step 3 of part_001's wizard the PAY NOW button is disabled      *)
(* exactly when loading is true: enabled whenever no submission is in      *)
(* flight, disabled whenever one is.                                       *)
C32_PayNowEnabledIffIdle ==
    (app = "stripe" /\ step = 3) => (PayNowStripeDisabled <=> loading)

----------------------------------------------------------------------------
(* The client secret a confirmation is made with *)

(* C33: confirmCardPayment is never called before a client secret has been *)
(* obtained: no submission of the form that creates its intent on mount    *)
(* calls it with the empty clientSecret of a pending or failed request.    *)
C33_ConfirmOnlyWithClientSecret ==
    (app = "realA" /\ Sent("confirmCardPayment")) =>
        ev.body.client_secret # <<>>

----------------------------------------------------------------------------
(* What the parent is told *)

\* the forms that report through onSuccess and onError
RealForms == {"realA", "realB"}

(* C34: every submission of a RealPaymentForm that has run to its end has  *)
(* called exactly one of onSuccess and onError, whatever the processor     *)
(* returned and whether or not the processor library was loaded.           *)
C34_ExactlyOneCallback ==
    (app \in RealForms /\ Finished) => ev.kind \in {"success", "error"}

====
